---------------------------- MODULE Spec2Model ----------------------------
(***************************************************************************)
(* Model of the Laica Smart Scale integration:                             *)
(*   custom_components/laica_smart_scale/laica_parser.py  (the decoder)    *)
(*   custom_components/laica_smart_scale/__init__.py      (the callback)   *)
(*                                                                         *)
(* Conventions.                                                            *)
(*  - A payload (Python bytes) is a sequence of integers 0..255.  Python   *)
(*    offsets are 0-based, TLA+ sequences 1-based: At(p, i) is p[i].       *)
(*  - A Python dict / dataclass is a record (a function on strings).  A    *)
(*    key or field whose Python value is None is left out of the record:   *)
(*    Has(d, k) reads "d.get(k) is not None".                              *)
(*  - weight_kg is a float with one decimal; it is held as the integer     *)
(*    number of tenths of a kilogram (130 stands for 13.0).                *)
(*  - TLC's integers have 31 bits, Python's are unbounded.  raw, raw_flags *)
(*    and raw_decrypted_int can reach 2^32 - 1 and are held as Wide: the   *)
(*    record [hi, lo] of the number hi * 65536 + lo, 0 <= lo < 65536.      *)
(*  - An operation that can raise returns [raised |-> <exception name>].   *)
(***************************************************************************)
EXTENDS Integers, Sequences, FiniteSets, TLC

VARIABLES
    payload,      \* the bytes handed to the decoder: Some(bytes), or Nothing
    report,       \* what parse_laica_manufacturer_data returned for them
    entry_data,   \* hass.data[DOMAIN][entry_id]
    now,          \* dt_util.utcnow(), a tick counter
    signals       \* number of async_dispatcher_send calls so far

vars == <<payload, report, entry_data, now, signals>>

---------------------------------------------------------------------------
(* Python values *)

Has(d, k) == k \in DOMAIN d

\* d[k] = v
Put(d, k, v) == (k :> v) @@ d

\* d.update(u)
Update(d, u) == u @@ d

\* {}
EmptyDict == [k \in {} |-> TRUE]

\* a local that holds None, or a value x
Nothing == [none |-> TRUE]
Some(x) == [v |-> x]

Min(a, b) == IF a <= b THEN a ELSE b
Max(a, b) == IF a >= b THEN a ELSE b

\* payload[i], 0-based; callers check 0 <= i < len(payload) first
At(p, i) == p[i + 1]

\* payload[a:b] for 0 <= a <= b: a slice is clipped to the payload, never raises
Slice(p, a, b) == SubSeq(p, a + 1, Min(b, Len(p)))

RECURSIVE BitXor(_, _)
BitXor(a, b) ==
    IF a = 0 THEN b
    ELSE IF b = 0 THEN a
    ELSE (((a % 2) + (b % 2)) % 2) + 2 * BitXor(a \div 2, b \div 2)

RECURSIVE BitAnd(_, _)
BitAnd(a, b) ==
    IF a = 0 \/ b = 0 THEN 0
    ELSE ((a % 2) * (b % 2)) + 2 * BitAnd(a \div 2, b \div 2)

\* a & ~b on Python's unbounded integers, for a, b >= 0
BitAndNot(a, b) == a - BitAnd(a, b)

\* the number hi * 65536 + lo
W(hi, lo) == [hi |-> hi, lo |-> lo]

\* int(w), for w < 2^31
ToInt(w) == (w.hi * 65536) + w.lo

WideAnd(a, b) == W(BitAnd(a.hi, b.hi), BitAnd(a.lo, b.lo))

WideAndNot(a, b) == W(BitAndNot(a.hi, b.hi), BitAndNot(a.lo, b.lo))

\* w * 256 + byte
WideShiftIn(w, byte) == W((w.hi * 256) + (w.lo \div 256), ((w.lo % 256) * 256) + byte)

HexDigit == <<"0", "1", "2", "3", "4", "5", "6", "7",
              "8", "9", "a", "b", "c", "d", "e", "f">>

\* f"{n:0{w}x}": lower-case hex, zero-padded to at least w digits
RECURSIVE HexPad(_, _)
HexPad(n, w) ==
    IF n < 16 /\ w <= 1 THEN HexDigit[n + 1]
    ELSE HexPad(n \div 16, w - 1) \o HexDigit[(n % 16) + 1]

\* f"{n:0{w}x}" for a Wide n
WideHexPad(n, w) ==
    IF n.hi = 0 THEN HexPad(n.lo, w)
    ELSE HexPad(n.hi, w - 4) \o HexPad(n.lo, 4)

\* f"{n:x}" for a Wide n
WideHex(n) == WideHexPad(n, 1)

\* str(n) for an integer n >= 0
RECURSIVE DecStr(_)
DecStr(n) ==
    IF n < 10 THEN HexDigit[n + 1]
    ELSE DecStr(n \div 10) \o HexDigit[(n % 10) + 1]

\* bytes.hex()
RECURSIVE BytesHex(_)
BytesHex(data) ==
    IF data = <<>> THEN ""
    ELSE HexPad(Head(data), 2) \o BytesHex(Tail(data))

\* int.from_bytes(data, byteorder="big", signed=False), a Wide; the callers
\* pass 2 or 4 bytes
RECURSIVE FromBytesBig(_)
FromBytesBig(data) ==
    IF data = <<>> THEN W(0, 0)
    ELSE WideShiftIn(FromBytesBig(SubSeq(data, 1, Len(data) - 1)), data[Len(data)])

\* round(n / d) for integers n >= 0, d > 0.  Python 3 rounds a float to the
\* nearest integer and a tie to the even one; n / d is a tie exactly when
\* 2 * (n % d) = d (k + 0.5 is a double, and a correctly rounded quotient
\* is k + 0.5 only when the true quotient is).
PyRoundDiv(n, d) ==
    LET q == n \div d
        r == n % d
    IN  IF 2 * r < d THEN q
        ELSE IF 2 * r > d THEN q + 1
        ELSE IF q % 2 = 0 THEN q ELSE q + 1

---------------------------------------------------------------------------
(* laica_parser.py *)

PACKET_TYPE_WEIGHT == 13
PACKET_TYPE_IMPEDANCE == 6

KNOWN_TYPE_OFFSET == 10
KNOWN_VALUE_OFFSET == 6

WEIGHT_VALUE_MASK == W(3, 65535)     \* 0x3FFFF
WEIGHT_STABLE_BIT == W(32768, 0)     \* 0x80000000

XOR_KEY == 160

\* the key applied with | instead of ^
decrypt_to_int_or(data) ==
    LET decrypted == [i \in 1..Len(data) |->
                        (data[i] + XOR_KEY) - BitAnd(data[i], XOR_KEY)]
    IN  FromBytesBig(decrypted)

\* a decoder that forgets the XOR
decrypt_to_int_no_xor(data) == FromBytesBig(data)

decrypt_to_int(data) ==
    LET decrypted == [i \in 1..Len(data) |-> BitXor(data[i], XOR_KEY)]
    IN  FromBytesBig(decrypted)

\* ties rounded away from zero instead of to the even integer
weight_of_half_up(raw_masked) == (raw_masked + 50) \div 100

\* line 87: round(raw_masked / 100) / 10, in tenths of a kilogram
weight_of(raw_masked) == PyRoundDiv(raw_masked, 100)

\* the lower bound of the plausibility window forgotten
weight_plausible_no_floor(weight_kg) == weight_kg <= 400 * 10

\* line 100: 5 <= weight_kg <= 400
weight_plausible(weight_kg) == 5 * 10 <= weight_kg /\ weight_kg <= 400 * 10

\* min and max exchanged
clamp_swapped(impedance) == Min(430, Max(630, impedance))

\* line 123
clamp(impedance) == Max(430, Min(630, impedance))

\* strict comparisons
impedance_plausible_strict(impedance) == 200 < impedance /\ impedance < 1200

\* line 136: 200 <= impedance <= 1200
impedance_plausible(impedance) == 200 <= impedance /\ impedance <= 1200

\* the weight branch of _attempt_parse, after the bounds check
attempt_weight(attempt0, raw, type_offset, value_offset, value_length) ==
    LET raw_masked == ToInt(WideAnd(raw, WEIGHT_VALUE_MASK))
        raw_flags  == WideAndNot(raw, WEIGHT_VALUE_MASK)
        is_stable  == WideAnd(raw, WEIGHT_STABLE_BIT) # W(0, 0)
        weight_kg  == weight_of(raw_masked)
        attempt    == Update(attempt0,
                        [raw_decrypted_int |-> raw,
                         raw_decrypted_hex |-> "0x" \o WideHexPad(raw, value_length * 2),
                         raw_masked |-> raw_masked,
                         raw_flags |-> raw_flags,
                         is_stable |-> is_stable,
                         weight_kg |-> weight_kg])
    IN  IF ~weight_plausible(weight_kg)
        THEN [attempt |-> Put(attempt, "reason", "weight_out_of_range")]
        ELSE [parsed |-> [kind |-> "weight",
                          type_byte_offset |-> type_offset,
                          value_offset |-> value_offset,
                          value_length |-> value_length,
                          weight_kg |-> weight_kg,
                          is_stable |-> is_stable,
                          raw_flags |-> raw_flags,
                          raw_decrypted_int |-> raw,
                          raw_decrypted_hex |-> "0x" \o WideHexPad(raw, value_length * 2),
                          notes |-> "raw_flags=0x" \o WideHex(raw_flags)],
              attempt |-> Put(attempt, "status", "accepted")]

\* the impedance branch of _attempt_parse, after the bounds check
attempt_impedance(attempt0, raw, type_offset, value_offset, value_length) ==
    LET impedance == ToInt(raw)
        clamped   == clamp(impedance)
        attempt   == Update(attempt0,
                        [raw_decrypted_int |-> raw,
                         raw_decrypted_hex |-> "0x" \o WideHexPad(raw, value_length * 2),
                         impedance_ohm_raw |-> impedance,
                         impedance_ohm |-> clamped,
                         clamped |-> (clamped # impedance)])
        packet    == [kind |-> "impedance",
                      type_byte_offset |-> type_offset,
                      value_offset |-> value_offset,
                      value_length |-> value_length,
                      impedance_ohm |-> clamped,
                      raw_decrypted_int |-> raw,
                      raw_decrypted_hex |-> "0x" \o WideHexPad(raw, value_length * 2)]
    IN  IF ~impedance_plausible(impedance)
        THEN [attempt |-> Put(attempt, "reason", "impedance_out_of_range")]
        ELSE [parsed |-> IF clamped # impedance
                         THEN Put(packet, "notes", "clamped_to_[430,630]")
                         ELSE packet,
              attempt |-> Put(attempt, "status", "accepted")]

\* off by one: a range that ends one byte past the payload is let through
value_bytes_out_of_range_off_by_one(p, value_offset, value_length) ==
    value_offset < 0 \/ value_offset + value_length > Len(p) + 1

\* line 77
value_bytes_out_of_range(p, value_offset, value_length) ==
    value_offset < 0 \/ value_offset + value_length > Len(p)

\* _attempt_parse: [raised |-> ...], or [attempt |-> dict] with parsed None,
\* or [parsed |-> LaicaParsedPacket, attempt |-> dict]
attempt_parse(p, kind, type_offset, value_offset, value_length, scheme) ==
    IF ~(0 <= type_offset /\ type_offset < Len(p))
    THEN [raised |-> "IndexError"]
    ELSE
    LET pkt_type == At(p, type_offset)
        attempt  == [kind |-> kind,
                     type_offset |-> type_offset,
                     type_byte |-> "0x" \o HexPad(pkt_type, 2),
                     value_offset |-> value_offset,
                     value_length |-> value_length,
                     scheme |-> scheme,
                     status |-> "rejected"]
    IN  IF value_bytes_out_of_range(p, value_offset, value_length)
        THEN [attempt |-> Put(attempt, "reason", "value_bytes_out_of_range")]
        ELSE
        LET raw == decrypt_to_int(Slice(p, value_offset, value_offset + value_length))
        IN  IF kind = "weight"
            THEN attempt_weight(attempt, raw, type_offset, value_offset, value_length)
            ELSE IF kind = "impedance"
            THEN attempt_impedance(attempt, raw, type_offset, value_offset, value_length)
            ELSE [attempt |-> Put(attempt, "reason", "unknown_kind")]

\* a scanner that looks for the weight marker only
is_type_marker_weight_only(b) == b = PACKET_TYPE_WEIGHT

\* line 164: b in (PACKET_TYPE_IMPEDANCE, PACKET_TYPE_WEIGHT)
is_type_marker(b) == b \in {PACKET_TYPE_IMPEDANCE, PACKET_TYPE_WEIGHT}

\* the generator of candidate_offsets: enumerate(payload) from offset idx on
RECURSIVE candidate_offsets(_, _)
candidate_offsets(p, idx) ==
    IF idx >= Len(p) THEN <<>>
    ELSE (IF is_type_marker(At(p, idx)) THEN <<idx>> ELSE <<>>)
         \o candidate_offsets(p, idx + 1)

\* off by one: a 10-byte payload is let through
too_short_lt(p) == Len(p) < KNOWN_TYPE_OFFSET

\* the length compared with the value offset instead of the type offset
too_short_value_offset(p) == Len(p) <= KNOWN_VALUE_OFFSET

\* line 174
too_short(p) == Len(p) <= KNOWN_TYPE_OFFSET

\* elif turned into else: every other type byte is taken for impedance
dispatch_kind_else_impedance(pkt_type) ==
    IF pkt_type = PACKET_TYPE_WEIGHT THEN "weight" ELSE "impedance"

\* the if / elif / else on pkt_type, lines 194-215
dispatch_kind(pkt_type) ==
    IF pkt_type = PACKET_TYPE_WEIGHT THEN "weight"
    ELSE IF pkt_type = PACKET_TYPE_IMPEDANCE THEN "impedance"
    ELSE "unknown"

\* the known-layout decision: [raised |-> ...] or [attempts |-> <<dict>>]
\* with, when a packet was accepted, parsed |-> LaicaParsedPacket
known_layout(p) ==
    IF too_short(p)
    THEN [attempts |-> << [scheme |-> "known_layout",
                           status |-> "rejected",
                           reason |-> "payload_too_short",
                           payload_len |-> Len(p)] >>]
    ELSE IF ~(KNOWN_TYPE_OFFSET < Len(p))
    THEN [raised |-> "IndexError"]
    ELSE
    LET pkt_type == At(p, KNOWN_TYPE_OFFSET)
        first    == [scheme |-> "known_layout",
                     type_offset |-> KNOWN_TYPE_OFFSET,
                     type_byte |-> "0x" \o HexPad(pkt_type, 2),
                     status |-> "rejected"]
        kind     == dispatch_kind(pkt_type)
        r        == attempt_parse(p, kind, KNOWN_TYPE_OFFSET, KNOWN_VALUE_OFFSET,
                                  IF kind = "weight" THEN 4 ELSE 2, "known_layout")
    IN  IF kind = "unknown"
        THEN [attempts |-> <<Put(first, "reason",
                                 "unknown_type_byte_at_known_offset")>>]
        ELSE IF Has(r, "raised") THEN r
        ELSE IF Has(r, "parsed")
        THEN [attempts |-> <<r.attempt>>, parsed |-> r.parsed]
        ELSE [attempts |-> <<r.attempt>>]

\* parse_laica_manufacturer_data: [raised |-> ...] or a LaicaParseReport
parse_laica_manufacturer_data(p) ==
    LET k == known_layout(p)
    IN  IF Has(k, "raised") THEN k
        ELSE Update(k, [payload_hex |-> BytesHex(p),
                        payload_len |-> Len(p),
                        candidate_type_offsets |-> candidate_offsets(p, 0)])

---------------------------------------------------------------------------
(* const.py *)

MANUFACTURER_ID == 41132     \* 0xA0AC

---------------------------------------------------------------------------
(* __init__.py *)

\* datetime.isoformat() of the tick t
Isoformat(t) == "T+" \o DecStr(t)

\* _service_info_for_diagnostics.  A service_info is held as
\* [address, name, rssi, manufacturer_data]; source, connectable,
\* service_uuids and service_data are copied through in the same way.
service_info_for_diagnostics(service_info) ==
    LET md == IF Has(service_info, "manufacturer_data")
              THEN service_info.manufacturer_data ELSE EmptyDict
    IN  [address |-> service_info.address,
         name |-> service_info.name,
         rssi |-> service_info.rssi,
         manufacturer_data |->
            [s \in {DecStr(k) : k \in DOMAIN md} |->
                LET k == CHOOSE i \in DOMAIN md : DecStr(i) = s
                IN  [len |-> Len(md[k]), hex |-> BytesHex(md[k])]]]

\* weight_kg written for every accepted weight packet, stable or not
store_parsed_any_weight(measurements, parsed, t) ==
    LET m1 == IF Has(parsed, "weight_kg")
              THEN LET a == Put(measurements, "weight_kg_raw", parsed.weight_kg)
                       b == Put(a, "weight_is_stable", parsed.is_stable)
                       c == Put(b, "weight_raw_flags", "0x" \o WideHex(parsed.raw_flags))
                   IN  Put(c, "weight_kg", parsed.weight_kg)
              ELSE measurements
        m2 == IF Has(parsed, "impedance_ohm")
              THEN Put(m1, "impedance_ohm", parsed.impedance_ohm)
              ELSE m1
    IN  Update(m2, [last_packet_kind |-> parsed.kind,
                    last_packet_type_offset |-> parsed.type_byte_offset,
                    last_packet_ts |-> Isoformat(t)])

\* lines 132-144: the measurements dict after an accepted packet
store_parsed(measurements, parsed, t) ==
    LET m1 == IF Has(parsed, "weight_kg")
              THEN LET a == Put(measurements, "weight_kg_raw", parsed.weight_kg)
                       b == Put(a, "weight_is_stable", parsed.is_stable)
                       c == Put(b, "weight_raw_flags", "0x" \o WideHex(parsed.raw_flags))
                   IN  IF parsed.is_stable
                       THEN Put(c, "weight_kg", parsed.weight_kg)
                       ELSE c
              ELSE measurements
        m2 == IF Has(parsed, "impedance_ohm")
              THEN Put(m1, "impedance_ohm", parsed.impedance_ohm)
              ELSE m1
    IN  Update(m2, [last_packet_kind |-> parsed.kind,
                    last_packet_type_offset |-> parsed.type_byte_offset,
                    last_packet_ts |-> Isoformat(t)])

\* a failed decode wipes the cache
store_measurements_clear(measurements, rep, t) ==
    IF ~Has(rep, "parsed") THEN EmptyDict
    ELSE store_parsed(measurements, rep.parsed, t)

\* lines 130-144: the measurements dict after a report
store_measurements(measurements, rep, t) ==
    IF ~Has(rep, "parsed") THEN measurements
    ELSE store_parsed(measurements, rep.parsed, t)

\* the snapshot, the time and the report kept only for a payload that decodes
store_report_parsed_only(data, service_info, rep, t) ==
    IF ~Has(rep, "parsed") THEN data
    ELSE Update(data,
           [last_service_info |-> service_info_for_diagnostics(service_info),
            last_seen |-> t,
            last_parse_report |->
               [payload_len |-> rep.payload_len,
                payload_hex |-> rep.payload_hex,
                candidate_type_offsets |-> rep.candidate_type_offsets,
                attempts |-> rep.attempts,
                parsed |-> rep.parsed]])

\* lines 119-127: entry_data after a report, the measurements aside
store_report(data, service_info, rep, t) ==
    LET shown == [payload_len |-> rep.payload_len,
                  payload_hex |-> rep.payload_hex,
                  candidate_type_offsets |-> rep.candidate_type_offsets,
                  attempts |-> rep.attempts]
    IN  Update(data,
          [last_service_info |-> service_info_for_diagnostics(service_info),
           last_seen |-> t,
           last_parse_report |-> IF Has(rep, "parsed")
                                 THEN Put(shown, "parsed", rep.parsed)
                                 ELSE shown])

\* sensor.py, LaicaWeightSensor.native_value: measurements.get("weight_kg")
native_value(data) ==
    LET measurements == IF Has(data, "last_measurements")
                        THEN data.last_measurements ELSE EmptyDict
    IN  IF Has(measurements, "weight_kg") THEN Some(measurements.weight_kg)
        ELSE Nothing

---------------------------------------------------------------------------
(* The inputs *)

\* longest payload, in bytes
MaxLen == 12
\* last tick of the clock
MaxClock == 2
\* most update signals sent
MaxSignals == 3

\* bytes 0..5: the reference vector's, and one that holds type markers
Prefixes == { <<160, 43, 190, 94, 145, 160>>, <<13, 6, 0, 13, 160, 6>> }

\* bytes 6..9 as sent (byte XOR 0xA0 is the value byte), chosen for the weight
\* path: stable bit clear/set, magnitudes 66 .. 262143 with 4949, 4950, 5050,
\* 10050, 10150 and 12980 among them
WeightFields ==
    { <<b6, b7, b8, b9>> : b6 \in {160, 32}, b7 \in {160, 44, 163},
                           b8 \in {160, 179, 135, 146, 95},
                           b9 \in {226, 245, 246, 6, 20, 26, 95} }

\* bytes 6..9 as sent, chosen for the impedance path: readings 199, 200, 429,
\* 430, 500, 630, 631, 1200, 1201 and far larger ones among them
ImpedanceFields ==
    { <<b6, b7, 146, 20>> : b6 \in {160, 161, 162, 164, 32},
                            b7 \in {103, 104, 13, 14, 84, 214, 215, 16, 17} }

\* byte 10
TypeBytes == {13, 6, 0, 191}

\* bytes 11..: bf 06 bf 06 ...
TailBytes == [i \in 1..(MaxLen - 11) |-> IF i % 2 = 1 THEN 191 ELSE 6]

Frames ==
    { pre \o val \o <<ty>> \o TailBytes :
        pre \in Prefixes, val \in WeightFields \cup ImpedanceFields, ty \in TypeBytes }

\* every frame cut to every length 0..MaxLen
Payloads == { SubSeq(f, 1, n) : f \in Frames, n \in 0..MaxLen }

\* the payloads the scale is seen to advertise in the integration's run
AdvertPayloads ==
    { <<160, 43, 190, 94, 145, 160, 160, 44, 146, 20, 13, 191>>,   \* 13.0 kg, unstable
      <<160, 43, 190, 94, 145, 160, 32, 44, 146, 20, 13, 191>>,    \* 13.0 kg, stable
      <<160, 43, 190, 94, 145, 160, 32, 160, 135, 6, 13, 191>>,    \* 10.2 kg, stable
      <<160, 43, 190, 94, 145, 160, 32, 160, 179, 245, 13, 191>>,  \* 4.9 kg: rejected
      <<160, 43, 190, 94, 145, 160, 161, 84, 146, 20, 6, 191>>,    \* 500 ohm
      <<160, 43, 190, 94, 145, 160, 160, 104, 146, 20, 6, 191>>,   \* 200 ohm: clamped
      <<160, 43, 190, 94, 145, 160, 164, 17, 146, 20, 6, 191>>,    \* 1201 ohm: rejected
      <<160, 43, 190, 94, 145, 160, 160, 44, 146, 20, 0, 191>>,    \* unknown type
      <<160, 43, 190>> }                                            \* too short

\* the manufacturer_data of an advertisement: None (left out), {}, another
\* company's entry only, this company's entry, or both
ServiceInfos ==
    LET base == [address |-> "AA:BB", name |-> "AAA002", rssi |-> -60]
    IN  { base, Put(base, "manufacturer_data", EmptyDict),
          Put(base, "manufacturer_data", (76 :> <<13, 6>>)) }
        \cup { Put(base, "manufacturer_data", (MANUFACTURER_ID :> p)) :
                 p \in AdvertPayloads }
        \cup { Put([base EXCEPT !.rssi = -70], "manufacturer_data",
                   (76 :> <<13, 6>>) @@ (MANUFACTURER_ID :> p)) :
                 p \in { q \in AdvertPayloads : Len(q) < 12 \/ q[8] = 104 } }

---------------------------------------------------------------------------
(* The decoder on its own: one payload, decoded once *)

\* async_setup_entry, lines 86-93
SetUp == [last_measurements |-> EmptyDict]

InitParse ==
    /\ payload \in { Some(p) : p \in Payloads }
    /\ report = Nothing
    /\ entry_data = SetUp
    /\ now = 0
    /\ signals = 0

Parse ==
    /\ report = Nothing
    /\ report' = parse_laica_manufacturer_data(payload.v)
    /\ UNCHANGED <<payload, entry_data, now, signals>>

NextParse == Parse

ParseSpec == InitParse /\ [][NextParse]_vars

---------------------------------------------------------------------------
(* The integration: advertisements arriving at _async_bluetooth_callback *)

Init ==
    /\ payload = Nothing
    /\ report = Nothing
    /\ entry_data = SetUp
    /\ now = 0
    /\ signals = 0

\* _async_bluetooth_callback(service_info, change)
bluetooth_callback(service_info) ==
    LET manufacturer_data ==
            IF Has(service_info, "manufacturer_data")
            THEN service_info.manufacturer_data ELSE EmptyDict
    IN  IF ~Has(manufacturer_data, MANUFACTURER_ID)
        THEN /\ payload' = Nothing
             /\ report' = Nothing
             /\ UNCHANGED <<entry_data, now, signals>>
        ELSE
        LET p == manufacturer_data[MANUFACTURER_ID]
        IN  \E rep \in {parse_laica_manufacturer_data(p)} :
            /\ payload' = Some(p)
            /\ report' = rep
            /\ IF Has(rep, "raised")
               THEN UNCHANGED <<entry_data, now, signals>>
               ELSE /\ signals < MaxSignals
                    /\ entry_data' =
                         Put(store_report(entry_data, service_info, rep, now),
                             "last_measurements",
                             store_measurements(entry_data.last_measurements, rep, now))
                    /\ signals' = signals + 1
                    /\ UNCHANGED now

Callback == \E service_info \in ServiceInfos : bluetooth_callback(service_info)

\* time passes between advertisements
Tick ==
    /\ now < MaxClock
    /\ now' = now + 1
    /\ UNCHANGED <<payload, report, entry_data, signals>>

Next == Callback \/ Tick

Spec == Init /\ [][Next]_vars

---------------------------------------------------------------------------
(* The claims.  What a claim says of a payload is computed here from the    *)
(* payload's bytes by arithmetic, not with the decoder's own operators.     *)

\* a payload was handed to the decoder and the decoder is done with it
Decoded == payload # Nothing /\ report # Nothing

\* the decoder returned a report (it did not raise)
Returned == ~Has(report, "raised")

Bytes == payload.v

TheAttempt == report.attempts[1]

\* the payload has a byte at offset 10, and it is b
TypeAt10(b) == Len(Bytes) >= 11 /\ Bytes[11] = b

\* b XOR 0xA0: bits 7 and 5 flipped
Plain(b) ==
    b + (IF (b \div 128) % 2 = 1 THEN -128 ELSE 128)
      + (IF (b \div 32) % 2 = 1 THEN -32 ELSE 32)

\* bytes 6..9 de-obfuscated, as the two 16-bit halves of the 32-bit raw
RawHi == (Plain(Bytes[7]) * 256) + Plain(Bytes[8])
RawLo == (Plain(Bytes[9]) * 256) + Plain(Bytes[10])

\* m = raw & 0x3FFFF
Magnitude == ((RawHi % 4) * 65536) + RawLo

\* the nearest integer to m / 100 when m is no tie
Nearest == (Magnitude + 50) \div 100

\* bytes 6..7 de-obfuscated: the 16-bit impedance reading
ImpedanceRaw == (Plain(Bytes[7]) * 256) + Plain(Bytes[8])

Reference == <<160, 43, 190, 94, 145, 160, 160, 44, 146, 20, 13, 191>>

RejectionReasons ==
    {"payload_too_short", "unknown_type_byte_at_known_offset",
     "value_bytes_out_of_range", "weight_out_of_range", "impedance_out_of_range"}

\* C1: for every payload, the empty one included, the decoder returns a
\* report without raising; the report holds exactly one attempt; parsed is
\* present iff that attempt is accepted; when parsed is absent the attempt is
\* rejected with a reason among the five rejection reasons.
C1_TotalAndExplained ==
    Decoded =>
        /\ Returned
        /\ Len(report.attempts) = 1
        /\ Has(report, "parsed") <=> TheAttempt.status = "accepted"
        /\ ~Has(report, "parsed") =>
              /\ TheAttempt.status = "rejected"
              /\ Has(TheAttempt, "reason")
              /\ TheAttempt.reason \in RejectionReasons

\* the empty payload was decoded, and rejected
C1_Witness ==
    /\ Decoded
    /\ Bytes = <<>>
    /\ Returned
    /\ ~Has(report, "parsed")
    /\ TheAttempt.status = "rejected"

\* C2: a payload with 0x0D at offset 10 whose magnitude m is no tie and
\* whose nearest integer t to m / 100 is in 50..4000 decodes to a weight
\* packet with value_offset 6, value_length 4, weight_kg = t / 10, is_stable
\* = bit 31 of raw, raw_flags = raw with its low 18 bits cleared and
\* raw_decrypted_int = raw; the reference payload decodes to 13.0 kg.
C2_WeightDecoded ==
    /\ (Decoded /\ TypeAt10(13) /\ Magnitude % 100 # 50
          /\ 50 <= Nearest /\ Nearest <= 4000) =>
        /\ Returned
        /\ Has(report, "parsed")
        /\ report.parsed.kind = "weight"
        /\ report.parsed.value_offset = 6
        /\ report.parsed.value_length = 4
        /\ report.parsed.weight_kg = Nearest
        /\ report.parsed.is_stable = (RawHi >= 32768)
        /\ report.parsed.raw_flags = [hi |-> RawHi - (RawHi % 4), lo |-> 0]
        /\ report.parsed.raw_decrypted_int = [hi |-> RawHi, lo |-> RawLo]
    /\ (Decoded /\ Bytes = Reference) =>
        /\ Returned
        /\ Has(report, "parsed")
        /\ report.parsed.kind = "weight"
        /\ report.parsed.weight_kg = 130

\* the reference payload was decoded to 13.0 kg
C2_Witness ==
    /\ Decoded
    /\ Bytes = Reference
    /\ Returned
    /\ Has(report, "parsed")
    /\ report.parsed.weight_kg = 130
    /\ Magnitude = 12980

\* C3: an accepted weight packet has 5 <= weight_kg <= 400, and a payload
\* with 0x0D at offset 10 whose computed weight_kg is outside [5, 400] gives
\* a single attempt, rejected with weight_out_of_range, and no parsed.
C3_WeightRange ==
    (Decoded /\ Returned) =>
        /\ (Has(report, "parsed") /\ report.parsed.kind = "weight") =>
              (50 <= report.parsed.weight_kg /\ report.parsed.weight_kg <= 4000)
        /\ TypeAt10(13) =>
              /\ Len(report.attempts) = 1
              /\ Has(TheAttempt, "weight_kg")
              /\ ~(50 <= TheAttempt.weight_kg /\ TheAttempt.weight_kg <= 4000) =>
                    /\ ~Has(report, "parsed")
                    /\ TheAttempt.status = "rejected"
                    /\ Has(TheAttempt, "reason")
                    /\ TheAttempt.reason = "weight_out_of_range"

\* a weight of 4.9 kg was computed and rejected
C3_Witness ==
    /\ Decoded
    /\ TypeAt10(13)
    /\ Returned
    /\ TheAttempt.weight_kg = 49
    /\ ~Has(report, "parsed")
    /\ TheAttempt.reason = "weight_out_of_range"

\* C4: a payload with 0x06 at offset 10 is accepted iff its 16-bit reading
\* raw is in 200..1200; then parsed is an impedance packet with value_length
\* 2 and impedance_ohm = min(630, max(430, raw)), which is in 430..630;
\* otherwise the single attempt is rejected with impedance_out_of_range and
\* parsed is absent.
C4_Impedance ==
    (Decoded /\ TypeAt10(6)) =>
        /\ Returned
        /\ Len(report.attempts) = 1
        /\ IF 200 <= ImpedanceRaw /\ ImpedanceRaw <= 1200
           THEN /\ Has(report, "parsed")
                /\ TheAttempt.status = "accepted"
                /\ report.parsed.kind = "impedance"
                /\ report.parsed.value_length = 2
                /\ report.parsed.impedance_ohm = Min(630, Max(430, ImpedanceRaw))
                /\ report.parsed.impedance_ohm \in 430..630
           ELSE /\ ~Has(report, "parsed")
                /\ TheAttempt.status = "rejected"
                /\ Has(TheAttempt, "reason")
                /\ TheAttempt.reason = "impedance_out_of_range"

\* a reading of 1200 ohm was accepted and reported as 630 ohm
C4_Witness ==
    /\ Decoded
    /\ TypeAt10(6)
    /\ ImpedanceRaw = 1200
    /\ Returned
    /\ Has(report, "parsed")
    /\ report.parsed.impedance_ohm = 630

\* C5 as stated: for every accepted impedance packet, notes is the string
\* "clamped" iff the raw reading is outside 430..630, and notes is absent
\* when it is inside.
C5_NotesClamped ==
    (Decoded /\ Returned /\ TypeAt10(6) /\ Has(report, "parsed")) =>
        /\ (Has(report.parsed, "notes") /\ report.parsed.notes = "clamped")
              <=> ImpedanceRaw \notin 430..630
        /\ ImpedanceRaw \in 430..630 => ~Has(report.parsed, "notes")

\* C5 as amended: for every accepted impedance packet, notes is the string
\* "clamped_to_[430,630]" iff the raw reading is outside 430..630, and notes
\* is absent when it is inside.
C5_NotesClampedTo ==
    (Decoded /\ Returned /\ TypeAt10(6) /\ Has(report, "parsed")) =>
        /\ (Has(report.parsed, "notes")
              /\ report.parsed.notes = "clamped_to_[430,630]")
              <=> ImpedanceRaw \notin 430..630
        /\ ImpedanceRaw \in 430..630 => ~Has(report.parsed, "notes")

\* a reading of 200 ohm was accepted, clamped and annotated
C5_Witness ==
    /\ Decoded
    /\ TypeAt10(6)
    /\ ImpedanceRaw = 200
    /\ Returned
    /\ Has(report, "parsed")
    /\ report.parsed.impedance_ohm = 430
    /\ Has(report.parsed, "notes")

\* C6 as stated: on the weight path, when m mod 100 = 50 the tie is rounded
\* away from zero: weight_kg = ((m + 50) div 100) / 10.
C6_HalfAwayFromZero ==
    (Decoded /\ TypeAt10(13) /\ Magnitude % 100 = 50) =>
        /\ Returned
        /\ TheAttempt.weight_kg = (Magnitude + 50) \div 100
        /\ Has(report, "parsed") => report.parsed.weight_kg = (Magnitude + 50) \div 100

\* C6 as amended: on the weight path, when m mod 100 = 50 the tie is rounded
\* to the even integer: weight_kg = (2 * ((m + 50) div 200)) / 10.
C6_HalfToEven ==
    (Decoded /\ TypeAt10(13) /\ Magnitude % 100 = 50) =>
        /\ Returned
        /\ TheAttempt.weight_kg = 2 * ((Magnitude + 50) \div 200)
        /\ Has(report, "parsed") => report.parsed.weight_kg = 2 * ((Magnitude + 50) \div 200)

\* the tie m = 10050 was decoded to 10.0 kg
C6_Witness ==
    /\ Decoded
    /\ TypeAt10(13)
    /\ Magnitude = 10050
    /\ Returned
    /\ Has(report, "parsed")
    /\ report.parsed.weight_kg = 100

\* C7: for every payload of at most 10 bytes, whatever its bytes, parsed is
\* absent and the report holds exactly one attempt, rejected with
\* payload_too_short.
C7_ShortPayload ==
    (Decoded /\ Len(Bytes) <= 10) =>
        /\ Returned
        /\ ~Has(report, "parsed")
        /\ Len(report.attempts) = 1
        /\ TheAttempt.status = "rejected"
        /\ Has(TheAttempt, "reason")
        /\ TheAttempt.reason = "payload_too_short"

\* a 10-byte payload that holds type markers was rejected as too short
C7_Witness ==
    /\ Decoded
    /\ Len(Bytes) = 10
    /\ Bytes[1] = 13
    /\ Returned
    /\ TheAttempt.reason = "payload_too_short"

\* C8: for every payload of 11 or 12 bytes whose byte at offset 10 is
\* neither 0x0D nor 0x06, parsed is absent and the single attempt is
\* rejected with unknown_type_byte_at_known_offset; it records the type byte
\* seen, and no value is extracted.
C8_UnknownType ==
    (Decoded /\ Len(Bytes) \in {11, 12} /\ Bytes[11] \notin {13, 6}) =>
        /\ Returned
        /\ ~Has(report, "parsed")
        /\ Len(report.attempts) = 1
        /\ TheAttempt.status = "rejected"
        /\ Has(TheAttempt, "reason")
        /\ TheAttempt.reason = "unknown_type_byte_at_known_offset"
        /\ TheAttempt.type_byte =
              "0x" \o HexDigit[(Bytes[11] \div 16) + 1] \o HexDigit[(Bytes[11] % 16) + 1]
        /\ ~Has(TheAttempt, "value_offset")
        /\ ~Has(TheAttempt, "raw_decrypted_int")

\* a 12-byte payload with type byte 0xbf was rejected
C8_Witness ==
    /\ Decoded
    /\ Len(Bytes) = 12
    /\ Bytes[11] = 191
    /\ Returned
    /\ TheAttempt.reason = "unknown_type_byte_at_known_offset"
    /\ TheAttempt.type_byte = "0xbf"

\* C9: candidate_type_offsets is the ascending sequence of exactly the
\* offsets i with payload[i] in {0x0D, 0x06}; it holds offset 10 whenever
\* the byte there is a marker, the attempt accepted or not; and the attempt
\* reads the type at offset 10 and the value at offset 6 whatever the
\* candidates are.
C9_Candidates ==
    (Decoded /\ Returned) =>
        LET c == report.candidate_type_offsets
            markers == { i \in 0..(Len(Bytes) - 1) : Bytes[i + 1] \in {13, 6} }
        IN  /\ \A i \in 1..(Len(c) - 1) : c[i] < c[i + 1]
            /\ { c[i] : i \in 1..Len(c) } = markers
            /\ (TypeAt10(13) \/ TypeAt10(6)) => \E i \in 1..Len(c) : c[i] = 10
            /\ Has(TheAttempt, "type_offset") => TheAttempt.type_offset = 10
            /\ Has(TheAttempt, "value_offset") => TheAttempt.value_offset = 6

\* a rejected weight payload with markers at offsets 0, 1, 3, 5 and 10
C9_Witness ==
    /\ Decoded
    /\ Returned
    /\ TypeAt10(13)
    /\ ~Has(report, "parsed")
    /\ Len(Bytes) = 11
    /\ report.candidate_type_offsets = <<0, 1, 3, 5, 10>>

\* C10: an advertisement whose parse report has no parsed packet leaves the
\* whole last-measurements cache (weight_kg, weight_kg_raw, weight_is_stable,
\* weight_raw_flags, impedance_ohm, last_packet_kind, last_packet_type_offset,
\* last_packet_ts) as it was.
C10_FailedDecodeKeepsCache ==
    [][ (payload' # Nothing /\ ~Has(report', "parsed")) =>
            entry_data'.last_measurements = entry_data.last_measurements ]_vars

\* a failed decode was stored while a stable weight is still cached
C10_Witness ==
    /\ Decoded
    /\ Returned
    /\ ~Has(report, "parsed")
    /\ Has(entry_data, "last_parse_report")
    /\ entry_data.last_parse_report.payload_hex = report.payload_hex
    /\ ~Has(entry_data.last_parse_report, "parsed")
    /\ Has(entry_data.last_measurements, "weight_kg")
    /\ Has(entry_data.last_measurements, "impedance_ohm")

---------------------------------------------------------------------------
(* The de-obfuscator on its own: one byte range, reduced once *)

\* longest byte range handed to _decrypt_to_int
MaxBytes == 4

\* the bytes of a range: 00, 0d, 5f, a0, ac, ff
RangeBytes == {0, 13, 95, 160, 172, 255}

RECURSIVE ByteRanges(_)
ByteRanges(n) ==
    IF n = 0 THEN { <<>> }
    ELSE ByteRanges(n - 1)
         \cup { Append(b, x) : b \in { r \in ByteRanges(n - 1) : Len(r) = n - 1 },
                               x \in RangeBytes }

InitDecrypt ==
    /\ payload \in { Some(b) : b \in ByteRanges(MaxBytes) }
    /\ report = Nothing
    /\ entry_data = SetUp
    /\ now = 0
    /\ signals = 0

\* raw = _decrypt_to_int(data)
Decrypt ==
    /\ report = Nothing
    /\ report' = [raw |-> decrypt_to_int(payload.v)]
    /\ UNCHANGED <<payload, entry_data, now, signals>>

NextDecrypt == Decrypt

DecryptSpec == InitDecrypt /\ [][NextDecrypt]_vars

\* the n-byte big-endian encoding of the Wide w (w < 256^n)
RECURSIVE ToBytesBig(_, _)
ToBytesBig(w, n) ==
    IF n = 0 THEN <<>>
    ELSE Append(ToBytesBig(W(w.hi \div 256, ((w.hi % 256) * 256) + (w.lo \div 256)),
                           n - 1),
                w.lo % 256)

\* C11: for every byte range b, XORing each byte with 0xA0 twice gives b
\* back: the bytes of the same-length big-endian encoding of
\* _decrypt_to_int(b), each XORed with 0xA0, are the bytes of b; and
\* _decrypt_to_int of that encoding is the plain big-endian integer of b.
C11_Involution ==
    (payload # Nothing /\ report # Nothing /\ Has(report, "raw")) =>
        LET b   == payload.v
            enc == ToBytesBig(report.raw, Len(b))
        IN  /\ Len(enc) = Len(b)
            /\ \A i \in 1..Len(b) : Plain(enc[i]) = b[i]
            /\ decrypt_to_int(enc) = FromBytesBig(b)

\* the range a0 ac 5f 0d was reduced to 0x000cffad, and reducing the encoding
\* of that gives 0xa0ac5f0d, the plain integer of the range
C11_Witness ==
    /\ payload = Some(<<160, 172, 95, 13>>)
    /\ report # Nothing
    /\ Has(report, "raw")
    /\ report.raw = W(12, 65453)
    /\ decrypt_to_int(ToBytesBig(report.raw, 4)) = W(41132, 24333)

---------------------------------------------------------------------------
(* The value extractor on its own: _attempt_parse called once *)

\* the 12-byte advertised payloads, cut to every length 0..MaxLen
AttemptPayloads ==
    { SubSeq(f, 1, Min(n, Len(f))) :
        f \in { q \in AdvertPayloads : Len(q) = 12 }, n \in 0..MaxLen }

\* kind and value_length: the known layout's two, and shorter ranges
AttemptKinds ==
    { <<"weight", 4>>, <<"weight", 2>>, <<"impedance", 2>>, <<"impedance", 1>>,
      <<"pressure", 2>> }

\* the arguments of one call; the known layout's type_offset = 10 and
\* value_offset = 6 are among them
AttemptCalls ==
    { [v |-> p, kind |-> k[1], value_length |-> k[2],
       type_offset |-> t, value_offset |-> o] :
        p \in AttemptPayloads, k \in AttemptKinds,
        t \in {0, KNOWN_TYPE_OFFSET, 11}, o \in {-1, 0, KNOWN_VALUE_OFFSET, 8, 9, 10} }

InitAttempt ==
    /\ payload \in AttemptCalls
    /\ report = Nothing
    /\ entry_data = SetUp
    /\ now = 0
    /\ signals = 0

\* parsed, attempt = _attempt_parse(payload, kind=..., type_offset=..., ...)
Attempt ==
    /\ report = Nothing
    /\ report' = attempt_parse(payload.v, payload.kind, payload.type_offset,
                               payload.value_offset, payload.value_length, "probe")
    /\ UNCHANGED <<payload, entry_data, now, signals>>

NextAttempt == Attempt

AttemptSpec == InitAttempt /\ [][NextAttempt]_vars

\* C12: for every accepted attempt, produced from any payload,
\* value_offset + value_length <= payload_len: the value bytes read lie
\* inside the payload.
C12_ValueInsidePayload ==
    (payload # Nothing /\ report # Nothing /\ ~Has(report, "raised")
       /\ report.attempt.status = "accepted") =>
        /\ report.attempt.value_offset = payload.value_offset
        /\ report.attempt.value_length = payload.value_length
        /\ report.attempt.value_offset >= 0
        /\ report.attempt.value_offset + report.attempt.value_length <= Len(payload.v)

\* the known layout's weight call on an 11-byte payload was accepted: its
\* value bytes 6..9 lie inside the payload
C12_Witness ==
    /\ payload # Nothing
    /\ report # Nothing
    /\ ~Has(report, "raised")
    /\ Len(payload.v) = 11
    /\ payload.kind = "weight"
    /\ payload.value_offset = 6
    /\ payload.value_length = 4
    /\ report.attempt.status = "accepted"
    /\ Has(report, "parsed")

---------------------------------------------------------------------------
(* The cache across advertisements *)

\* the report just stored holds an accepted weight packet
WeightStored == Decoded /\ Returned /\ Has(report, "parsed") /\ report.parsed.kind = "weight"

\* C13: the cached weight_kg, which the Weight sensor reports, changes only
\* when an accepted weight packet with is_stable true is stored, and then
\* to that packet's weight_kg; so it is absent or the weight_kg of the most
\* recent accepted stable weight packet.  An accepted weight packet with
\* is_stable false updates weight_kg_raw, weight_is_stable and
\* weight_raw_flags and leaves weight_kg as it was; an impedance packet
\* leaves weight_kg as it was.
C13_StableWeightOnly ==
    [][ /\ (WeightStored' /\ report'.parsed.is_stable) =>
              native_value(entry_data') = Some(report'.parsed.weight_kg)
        /\ ~(WeightStored' /\ report'.parsed.is_stable) =>
              native_value(entry_data') = native_value(entry_data)
        /\ (WeightStored' /\ ~report'.parsed.is_stable) =>
              /\ entry_data'.last_measurements.weight_kg_raw = report'.parsed.weight_kg
              /\ entry_data'.last_measurements.weight_is_stable = FALSE
              /\ entry_data'.last_measurements.weight_raw_flags
                   = "0x" \o WideHex(report'.parsed.raw_flags) ]_vars

\* 10.2 kg stable is cached, and the unstable 13.0 kg that came after it
\* shows in weight_kg_raw only
C13_Witness ==
    /\ WeightStored
    /\ ~report.parsed.is_stable
    /\ report.parsed.weight_kg = 130
    /\ native_value(entry_data) = Some(102)
    /\ entry_data.last_measurements.weight_kg_raw = 130
    /\ entry_data.last_measurements.weight_is_stable = FALSE
    /\ entry_data.last_measurements.weight_raw_flags = "0x8c0000"

---------------------------------------------------------------------------
(* The diagnostics across advertisements *)

\* C14: a callback invocation that carries a payload for company id 0xA0AC
\* overwrites last_seen with the time of the call, last_service_info with
\* the snapshot of that advertisement and last_parse_report with the report
\* of that payload, and sends exactly one update signal, whether or not the
\* payload decodes; every other step, an invocation without such a payload
\* among them, changes no cached state and sends no signal.  So
\* last_parse_report always describes the most recent payload-carrying
\* advertisement.
C14_EveryPayloadRecorded ==
    [][ /\ (payload' # Nothing /\ now' = now) =>
              /\ Returned'
              /\ signals' = signals + 1
              /\ Has(entry_data', "last_seen")
              /\ Has(entry_data', "last_service_info")
              /\ Has(entry_data', "last_parse_report")
              /\ entry_data'.last_seen = now
              /\ entry_data'.last_service_info.manufacturer_data[DecStr(MANUFACTURER_ID)]
                   = [len |-> Len(payload'.v), hex |-> BytesHex(payload'.v)]
              /\ entry_data'.last_parse_report.payload_len = Len(payload'.v)
              /\ entry_data'.last_parse_report.payload_hex = BytesHex(payload'.v)
              /\ entry_data'.last_parse_report.candidate_type_offsets
                   = report'.candidate_type_offsets
              /\ entry_data'.last_parse_report.attempts = report'.attempts
              /\ Has(entry_data'.last_parse_report, "parsed") = Has(report', "parsed")
              /\ Has(report', "parsed") =>
                   entry_data'.last_parse_report.parsed = report'.parsed
        /\ ~(payload' # Nothing /\ now' = now) =>
              /\ entry_data' = entry_data
              /\ signals' = signals ]_vars

\* at time 1 a payload that does not decode was recorded, the second signal
\* sent, and the advertisement without a payload that came after it has
\* left all of it in place
C14_Witness ==
    /\ payload = Nothing
    /\ signals = 2
    /\ Has(entry_data, "last_seen")
    /\ entry_data.last_seen = 1
    /\ entry_data.last_service_info.rssi = -70
    /\ entry_data.last_service_info.manufacturer_data["41132"] = [len |-> 3, hex |-> "a02bbe"]
    /\ entry_data.last_parse_report.payload_hex = "a02bbe"
    /\ ~Has(entry_data.last_parse_report, "parsed")
    /\ Has(entry_data.last_measurements, "weight_kg")

=============================================================================
